---- MODULE Spec2Model ----
(***************************************************************************)
(* MAX-SC-QBF: the instance generator (gen_instances.py) and the model     *)
(* builder / runner (max_sc_qbf.py).                                       *)
(*                                                                         *)
(* The two programs share only the instance file.  Each is modelled by its *)
(* own specification over one set of variables:                            *)
(*   SpecGen     build_sets: pattern strategy, enforce_coverage,           *)
(*               nonempty_fix, under an arbitrary random source            *)
(*   SpecMatrix  gen_A_triangular under an arbitrary random source         *)
(*   SpecDet     two runs of the generator's main with a seeded source     *)
(*   SpecFile    write_instance followed by parse_instance                 *)
(*   SpecParse   parse_instance / main on an arbitrary token stream        *)
(*   SpecSolve   build_and_solve and the runner's report                   *)
(***************************************************************************)
EXTENDS Integers, Sequences, FiniteSets, TLC

VARIABLES
    pc,          \* position of the running program
    n,           \* instance size
    pattern,     \* "uniform" | "interval" | "pareto"
    rng,         \* the random.Random handle threaded through the generator
    S,           \* list of covering sets (1-based elements), S[i] for item i
    S_entry,     \* S as it was when enforce_coverage was entered
    missing,     \* enforce_coverage: the elements still to be repaired
    i,           \* loop index of nonempty_fix
    density,     \* probability of a nonzero off-diagonal, [num, den]
    diag_range,  \* <<lo, hi>> of the diagonal draw
    off_range,   \* <<lo, hi>> of the off-diagonal draw
    A_rows,      \* upper-triangular rows, A_rows[i] = <<a_ii, ..., a_in>>
    picked,      \* positions <<i, j>>, i < j, that passed the density test
    args_seed,   \* --seed of the generator: <<seed>>, or None
    hash_pattern,\* hash(args.pattern) in this process
    seed,        \* the seed handed to random.Random
    run,         \* which of the two generation runs is executing
    first,       \* what the first run produced
    file,        \* the instance file: a sequence of lines of tokens
    args,        \* command line of the runner
    parsed,      \* what parse_instance returned (n, subsets, A) or raised
    milp,        \* the model handed to the solver
    solver,      \* what the solver reports after optimize()
    result,      \* the dictionary returned by build_and_solve
    report       \* what the runner's main printed

genVars == <<pc, n, pattern, rng, S, S_entry, missing, i>>
matVars == <<density, diag_range, off_range, A_rows, picked>>
detVars == <<args_seed, hash_pattern, seed, run, first>>
runVars == <<args, parsed, milp, solver, result, report>>
vars == <<genVars, matVars, detVars, file, runVars>>

(***************************************************************************)
(* Bounds of the model.                                                    *)
(***************************************************************************)
MaxN == 3        \* largest instance size generated
RangeBound == 1  \* the draw ranges tried lie within -RangeBound..RangeBound
FileMaxN == 2    \* largest instance written and parsed back
MaxToks == 6     \* longest token stream given to the parser
SolveMaxN == 2   \* largest instance solved, besides the n=4 scenario
YDen == 2        \* a product variable takes the values k / YDen
MaxSeed == 3     \* the seeds tried are 0..MaxSeed
MaxHash == 2     \* hash(args.pattern) takes a value of 0..MaxHash
UnitDen == 4     \* rng.random() returns r / UnitDen, r in 0..UnitDen-1

Patterns == {"uniform", "interval", "pareto"}

\* --rho: 0, the default 0.20, and 1
Densities == {[num |-> 0, den |-> 1], [num |-> 1, den |-> 5], [num |-> 1, den |-> 1]}

Ranges == {<<lo, hi>> \in (0 - RangeBound..RangeBound) \X (0 - RangeBound..RangeBound)
             : lo <= hi}
OffRanges == {<<0, 0>>, <<-1, 1>>}

HashValues == 0..MaxHash

Idle == "idle"

(***************************************************************************)
(* Arithmetic helpers.                                                     *)
(***************************************************************************)
Max(a, b) == IF a >= b THEN a ELSE b
Min(a, b) == IF a <= b THEN a ELSE b

\* Python round() of the rational num/den (den > 0, num >= 0): to nearest,
\* ties to the even neighbour.
RoundHalfEven(num, den) ==
    LET q == num \div den
        r == num % den
    IN  IF 2 * r < den THEN q
        ELSE IF 2 * r > den THEN q + 1
        ELSE IF q % 2 = 0 THEN q ELSE q + 1

\* int(round(n ** 0.5)): the r with (r - 1/2)^2 <= n < (r + 1/2)^2.
RoundSqrt(m) ==
    CHOOSE r \in 0..m :
        /\ 4 * m < (2 * r + 1) * (2 * r + 1)
        /\ (r = 0 \/ (2 * r - 1) * (2 * r - 1) <= 4 * m)

avg_size(m) == Max(2, RoundSqrt(m))

(***************************************************************************)
(* The random source.  random.Random is an external generator: a handle    *)
(* of kind "any" may return every value on every call (an arbitrary seed), *)
(* a handle of kind "seeded" is a deterministic function of its state.     *)
(* One call of rng.random() yields r / UnitDen.                            *)
(***************************************************************************)
AnyRng == [kind |-> "any", state |-> 0, calls |-> 0]

RngMod == 16
RngMul == 5
RngInc == 13

\* random.Random(seed)
SeededRng(sd) == [kind |-> "seeded", state |-> sd % RngMod, calls |-> 0]

\* The possible outcomes <<r, rng'>> of one call of rng.random().
RngRandom(g) ==
    IF g.kind = "any"
    THEN {<<r, g>> : r \in 0..(UnitDen - 1)}
    ELSE LET s == (RngMul * g.state + RngInc) % RngMod
         IN  {<<(s * UnitDen) \div RngMod,
                [g EXCEPT !.state = s, !.calls = @ + 1]>>}

\* The possible outcomes <<<<r_1, ..., r_k>>, rng'>> of k successive calls.
RECURSIVE RngDraws(_, _)
RngDraws(g, k) ==
    IF k = 0 THEN {<< <<>>, g >>}
    ELSE UNION {{<<Append(p[1], q[1]), q[2]>> : q \in RngRandom(p[2])}
                  : p \in RngDraws(g, k - 1)}

\* rng._randbelow(m) from one draw r: an integer of 0..m-1.
Randbelow(r, m) == (r * m) \div UnitDen

\* rng.randint(lo, hi): both ends included.
Randint(r, lo, hi) == lo + Randbelow(r, hi - lo + 1)

\* Mutant: the upper end is included, as with randint.
RandrangeInclusive(r, lo, hi) == lo + Randbelow(r, hi - lo + 1)

\* rng.randrange(lo, hi): hi excluded.
Randrange(r, lo, hi) == lo + Randbelow(r, hi - lo)

\* rng.random() < num/den
Below(r, num, den) == r * den < num * UnitDen

\* rng.sample(range(1, m+1), k) with the draws rs: the pool algorithm of
\* random.sample (pool[j] is taken and replaced by the last live entry).
RECURSIVE SamplePool(_, _, _, _)
SamplePool(pool, k, rs, t) ==
    IF t > k THEN {}
    ELSE LET live == Len(pool) - (t - 1)
             j == Randbelow(rs[t], live) + 1
         IN  {pool[j]} \cup SamplePool([pool EXCEPT ![j] = pool[live]], k, rs, t + 1)

Sample(m, k, rs) == SamplePool([e \in 1..m |-> e], k, rs, 1)

(***************************************************************************)
(* Pattern strategies: one action per iteration of the strategy's loop.    *)
(***************************************************************************)
\* pattern_uniform, the set built from the n draws rs
UniformSet(m, rs) == {k \in 1..m : Below(rs[k], avg_size(m), m)}

\* pattern_interval, the length L and the run starting at item it
IntervalLen(m, r) ==
    Max(1, RoundHalfEven(avg_size(m) * (UnitDen + 2 * r), 2 * UnitDen))

IntervalSet(m, it, L) == {((it - 1 + t) % m) + 1 : t \in 0..(L - 1)}

\* pattern_pareto: rng.paretovariate(2.0) is (1 - u) ** -0.5, so
\* avg * min(val, 3) is avg * sqrt(D / (D - r)), capped at 3 * avg.
ParetoSize(m, r) ==
    LET avg == avg_size(m)
        D == UnitDen
        rounded ==
            IF D >= 9 * (D - r) THEN 3 * avg
            ELSE CHOOSE s \in 0..(3 * avg) :
                   \/ /\ (2 * s - 1) * (2 * s - 1) * (D - r) < 4 * avg * avg * D
                      /\ 4 * avg * avg * D < (2 * s + 1) * (2 * s + 1) * (D - r)
                   \/ /\ (2 * s - 1) * (2 * s - 1) * (D - r) = 4 * avg * avg * D
                      /\ s % 2 = 0
                   \/ /\ (2 * s + 1) * (2 * s + 1) * (D - r) = 4 * avg * avg * D
                      /\ s % 2 = 0
    IN  Max(1, Min(3 * avg, rounded))

pattern_uniform ==
    /\ pc = "pattern" /\ pattern = "uniform" /\ Len(S) < n
    /\ \E d \in RngDraws(rng, n) :
          /\ S' = Append(S, UniformSet(n, d[1]))
          /\ rng' = d[2]
    /\ UNCHANGED <<pc, n, pattern, S_entry, missing, i, matVars, detVars, file, runVars>>

pattern_interval ==
    /\ pc = "pattern" /\ pattern = "interval" /\ Len(S) < n
    /\ \E d \in RngRandom(rng) :
          /\ S' = Append(S, IntervalSet(n, Len(S) + 1, IntervalLen(n, d[1])))
          /\ rng' = d[2]
    /\ UNCHANGED <<pc, n, pattern, S_entry, missing, i, matVars, detVars, file, runVars>>

pattern_pareto ==
    /\ pc = "pattern" /\ pattern = "pareto" /\ Len(S) < n
    /\ \E d \in RngRandom(rng) :
          LET size == ParetoSize(n, d[1]) IN
          IF size >= n
          THEN /\ S' = Append(S, 1..n)
               /\ rng' = d[2]
          ELSE \E e \in RngDraws(d[2], size) :
                  /\ S' = Append(S, Sample(n, size, e[1]))
                  /\ rng' = e[2]
    /\ UNCHANGED <<pc, n, pattern, S_entry, missing, i, matVars, detVars, file, runVars>>

(***************************************************************************)
(* enforce_coverage                                                        *)
(***************************************************************************)
RECURSIVE SortedList(_)
SortedList(s) ==
    IF s = {} THEN <<>>
    ELSE LET m == CHOOSE x \in s : \A y \in s : x <= y
         IN  <<m>> \o SortedList(s \ {m})

\* covered[k] of lines 52-55
Covered(T, k) == Cardinality({t \in 1..Len(T) : k \in T[t]})

\* Mutant: the scan of line 56 stops one element short (range(1, n)).
MissingShort(T, m) == SortedList({k \in 1..(m - 1) : Covered(T, k) = 0})

\* missing of line 56
Missing(T, m) == SortedList({k \in 1..m : Covered(T, k) = 0})

\* Mutant: ties go to the last set of minimal size.
ArgMinSizeLast(T) ==
    CHOOSE idx \in 1..Len(T) :
        /\ \A t \in 1..Len(T) : Cardinality(T[idx]) <= Cardinality(T[t])
        /\ \A t \in (idx + 1)..Len(T) : Cardinality(T[idx]) < Cardinality(T[t])

\* min(range(len(S)), key=lambda i: len(S[i])): the first index of minimal size
ArgMinSize(T) ==
    CHOOSE idx \in 1..Len(T) :
        /\ \A t \in 1..Len(T) : Cardinality(T[idx]) <= Cardinality(T[t])
        /\ \A t \in 1..(idx - 1) : Cardinality(T[idx]) < Cardinality(T[t])

\* build_sets line 112, enforce_coverage lines 52-56
enforce_coverage_begin ==
    /\ pc = "pattern" /\ Len(S) = n
    /\ S_entry' = S
    /\ missing' = Missing(S, n)
    /\ i' = 1
    /\ pc' = IF missing' # <<>> THEN "enforce"
             ELSE IF Len(S) = 0 THEN "built" ELSE "fix"
    /\ UNCHANGED <<n, pattern, rng, S, matVars, detVars, file, runVars>>

\* one iteration of the loop of lines 57-59
enforce_coverage_step ==
    /\ pc = "enforce" /\ missing # <<>>
    /\ LET k == Head(missing)
           idx == ArgMinSize(S)
       IN  S' = [S EXCEPT ![idx] = @ \cup {k}]
    /\ missing' = Tail(missing)
    /\ pc' = IF missing' = <<>> THEN "fix" ELSE "enforce"
    /\ UNCHANGED <<n, pattern, rng, S_entry, i, matVars, detVars, file, runVars>>

(***************************************************************************)
(* nonempty_fix: one iteration of the loop of lines 63-65                  *)
(***************************************************************************)
nonempty_fix ==
    /\ pc = "fix" /\ i <= Len(S)
    /\ IF S[i] = {}
       THEN \E d \in RngRandom(rng) :
               /\ S' = [S EXCEPT ![i] = {Randrange(d[1], 1, n + 1)}]
               /\ rng' = d[2]
       ELSE UNCHANGED <<S, rng>>
    /\ i' = i + 1
    /\ pc' = IF i = Len(S) THEN "built" ELSE "fix"
    /\ UNCHANGED <<n, pattern, S_entry, missing, matVars, detVars, file, runVars>>

build_sets ==
    \/ pattern_uniform
    \/ pattern_interval
    \/ pattern_pareto
    \/ enforce_coverage_begin
    \/ enforce_coverage_step
    \/ nonempty_fix

(***************************************************************************)
(* gen_A_triangular: one action per entry drawn.                           *)
(***************************************************************************)
\* the row being filled is the last one; row r holds n - r + 1 entries
RowsComplete ==
    IF A_rows = <<>> THEN TRUE
    ELSE Len(A_rows[Len(A_rows)]) = n - Len(A_rows) + 1

\* Mutant: a zero draw is kept.
ZeroKeptDraw(g, range) ==
    {<<Randint(d[1], range[1], range[2]), d[2]>> : d \in RngRandom(g)}

\* lines 78-81 and 84-86: a draw of lo..hi, a zero replaced by +1 or -1.
\* The outcomes <<value, rng'>>.
NonzeroDraw(g, range) ==
    UNION {IF Randint(d[1], range[1], range[2]) # 0
           THEN {<<Randint(d[1], range[1], range[2]), d[2]>>}
           ELSE {<<IF Below(e[1], 1, 2) THEN 1 ELSE -1, e[2]>>
                   : e \in RngRandom(d[2])}
             : d \in RngRandom(g)}

\* lines 77-81: a new row opens with its diagonal entry
gen_A_diag ==
    /\ pc = "matrix" /\ RowsComplete /\ Len(A_rows) < n
    /\ \E v \in NonzeroDraw(rng, diag_range) :
          /\ A_rows' = Append(A_rows, <<v[1]>>)
          /\ rng' = v[2]
    /\ UNCHANGED <<pc, n, pattern, S, S_entry, missing, i, density,
                   diag_range, off_range, picked, detVars, file, runVars>>

\* lines 82-89: the next off-diagonal entry of the open row
gen_A_off ==
    /\ pc = "matrix" /\ ~RowsComplete
    /\ LET r == Len(A_rows)
           c == r + Len(A_rows[r])
       IN  \E d \in RngRandom(rng) :
              IF Below(d[1], density.num, density.den)
              THEN \E v \in NonzeroDraw(d[2], off_range) :
                      /\ A_rows' = [A_rows EXCEPT ![r] = Append(@, v[1])]
                      /\ picked' = picked \cup {<<r, c>>}
                      /\ rng' = v[2]
              ELSE /\ A_rows' = [A_rows EXCEPT ![r] = Append(@, 0)]
                   /\ picked' = picked
                   /\ rng' = d[2]
    /\ UNCHANGED <<pc, n, pattern, S, S_entry, missing, i, density,
                   diag_range, off_range, detVars, file, runVars>>

\* line 91
gen_A_return ==
    /\ pc = "matrix" /\ RowsComplete /\ Len(A_rows) >= n
    /\ pc' = "write"
    /\ UNCHANGED <<n, pattern, rng, S, S_entry, missing, i, matVars,
                   detVars, file, runVars>>

gen_A_triangular ==
    \/ gen_A_diag
    \/ gen_A_off
    \/ gen_A_return

(***************************************************************************)
(* Tokens.  A token is the sequence of its characters; str() of an integer *)
(* is its decimal digits, with a leading "-" when negative.                *)
(***************************************************************************)
DigitChars == <<"0", "1", "2", "3", "4", "5", "6", "7", "8", "9">>

RECURSIVE NatStr(_)
NatStr(k) ==
    IF k < 10 THEN <<DigitChars[k + 1]>>
    ELSE NatStr(k \div 10) \o <<DigitChars[(k % 10) + 1]>>

\* Mutant: the sign is not written.
IntStrUnsigned(k) == IF k < 0 THEN NatStr(0 - k) ELSE NatStr(k)

\* str(k)
IntStr(k) == IF k < 0 THEN <<"-">> \o NatStr(0 - k) ELSE NatStr(k)

(***************************************************************************)
(* write_instance: the lines written, each line the list of its tokens.    *)
(***************************************************************************)
write_instance(m, T, rows) ==
    << <<IntStr(m)>> >>
    \o << [t \in 1..Len(T) |-> IntStr(Cardinality(T[t]))] >>
    \o [t \in 1..Len(T) |->
          [e \in 1..Cardinality(T[t]) |-> IntStr(SortedList(T[t])[e])]]
    \o [r \in 1..m |-> [c \in 1..Len(rows[r]) |-> IntStr(rows[r][c])]]

(***************************************************************************)
(* main of the generator, single-instance mode (lines 151-161).            *)
(***************************************************************************)
\* an option left out of the command line
None == <<>>

DefaultBaseSeed == 20250819
HashModulus == 1000
DiagLo == -10
DiagHi == 10
OffLo == -5
OffHi == 5

\* Mutant: the hash term of the default seed is added to a given --seed too.
main_seed_hashed ==
    /\ pc = "main"
    /\ seed' = (IF args_seed # None THEN args_seed[1] ELSE DefaultBaseSeed)
                 + (hash_pattern % HashModulus) + n
    /\ rng' = SeededRng(seed')
    /\ S' = <<>>
    /\ pc' = "pattern"
    /\ UNCHANGED <<n, pattern, S_entry, missing, i, matVars, args_seed,
                   hash_pattern, run, first, file, runVars>>

\* lines 154-156
main_seed ==
    /\ pc = "main"
    /\ seed' = IF args_seed # None THEN args_seed[1]
               ELSE DefaultBaseSeed + (hash_pattern % HashModulus) + n
    /\ rng' = SeededRng(seed')
    /\ S' = <<>>
    /\ pc' = "pattern"
    /\ UNCHANGED <<n, pattern, S_entry, missing, i, matVars, args_seed,
                   hash_pattern, run, first, file, runVars>>

\* line 158, with the default ranges of lines 68-69
main_gen_A ==
    /\ pc = "built"
    /\ diag_range' = <<DiagLo, DiagHi>>
    /\ off_range' = <<OffLo, OffHi>>
    /\ A_rows' = <<>>
    /\ picked' = {}
    /\ pc' = "matrix"
    /\ UNCHANGED <<n, pattern, rng, S, S_entry, missing, i, density,
                   detVars, file, runVars>>

\* line 160
main_write ==
    /\ pc = "write"
    /\ file' = write_instance(n, S, A_rows)
    /\ pc' = "done"
    /\ UNCHANGED <<n, pattern, rng, S, S_entry, missing, i, matVars,
                   detVars, runVars>>

\* the same command line is run a second time, in a new process
second_run ==
    /\ pc = "done" /\ run = 1
    /\ first' = [S |-> S, A_rows |-> A_rows, file |-> file,
                 calls |-> rng.calls, seed |-> seed, hash |-> hash_pattern]
    /\ run' = 2
    /\ hash_pattern' \in HashValues
    /\ pc' = "main"
    /\ S' = <<>> /\ S_entry' = <<>> /\ missing' = <<>> /\ i' = 0
    /\ A_rows' = <<>> /\ picked' = {}
    /\ file' = <<>>
    /\ rng' = AnyRng
    /\ seed' = Idle
    /\ UNCHANGED <<n, pattern, density, diag_range, off_range, args_seed,
                   runVars>>

(***************************************************************************)
(* parse_instance                                                          *)
(***************************************************************************)
\* token_stream: the tokens of the non-empty lines, in order
RECURSIVE token_stream(_)
token_stream(lines) ==
    IF lines = <<>> THEN <<>>
    ELSE IF Head(lines) = <<>> THEN token_stream(Tail(lines))
    ELSE Head(lines) \o token_stream(Tail(lines))

IsDigit(c) == \E d \in 1..10 : DigitChars[d] = c
DigitVal(c) == (CHOOSE d \in 1..10 : DigitChars[d] = c) - 1

\* the token without its sign
Unsigned(tok) ==
    IF tok # <<>> /\ tok[1] \in {"-", "+"} THEN Tail(tok) ELSE tok

AllDigits(cs) == cs # <<>> /\ \A k \in 1..Len(cs) : IsDigit(cs[k])

RECURSIVE NatVal(_)
NatVal(cs) ==
    IF cs = <<>> THEN 0
    ELSE 10 * NatVal(SubSeq(cs, 1, Len(cs) - 1)) + DigitVal(cs[Len(cs)])

\* int(tok) succeeds on an optional sign followed by decimal digits
IsInt(tok) == AllDigits(Unsigned(tok))

IntVal(tok) ==
    IF tok[1] = "-" THEN 0 - NatVal(Unsigned(tok)) ELSE NatVal(Unsigned(tok))

\* float(tok) succeeds on these and on a decimal point followed by digits;
\* the tokens of the model have the fraction digits all "0", so that the
\* value is the integer before the point.
DotAt(cs) == CHOOSE k \in 1..Len(cs) : cs[k] = "."

IsFloat(tok) ==
    LET cs == Unsigned(tok) IN
    \/ AllDigits(cs)
    \/ /\ \E k \in 1..Len(cs) : cs[k] = "."
       /\ AllDigits(SubSeq(cs, 1, DotAt(cs) - 1))
       /\ \A k \in (DotAt(cs) + 1)..Len(cs) : cs[k] = "0"

FloatVal(tok) ==
    LET cs == Unsigned(tok)
        whole == IF \E k \in 1..Len(cs) : cs[k] = "."
                 THEN SubSeq(cs, 1, DotAt(cs) - 1) ELSE cs
    IN  IF tok[1] = "-" THEN 0 - NatVal(whole) ELSE NatVal(whole)

Raise(msg) == [ok |-> FALSE, error |-> msg]

\* Mutant: the index 0 is taken for an element of the universe.
InUniverseFromZero(k, m) == 0 <= k /\ k <= m

\* line 57: 1 <= k <= n
InUniverse(k, m) == 1 <= k /\ k <= m

\* lines 41-46: the sizes s_i
RECURSIVE ReadSizes(_, _, _, _)
ReadSizes(toks, pos, left, s) ==
    IF left <= 0 THEN [ok |-> TRUE, s |-> s, pos |-> pos]
    ELSE IF pos > Len(toks) THEN Raise("Linha de tamanhos s_i incompleta.")
    ELSE IF ~IsInt(toks[pos]) THEN Raise("invalid literal for int()")
    ELSE ReadSizes(toks, pos + 1, left - 1, Append(s, IntVal(toks[pos])))

\* lines 49-59: the covering sets; set it is being read, j elements so far
RECURSIVE ReadSets(_, _, _, _, _, _, _)
ReadSets(toks, pos, m, s, it, j, sets) ==
    IF it > Len(sets) THEN [ok |-> TRUE, subsets |-> sets, pos |-> pos]
    ELSE IF j >= s[it] THEN ReadSets(toks, pos, m, s, it + 1, 0, sets)
    ELSE IF pos > Len(toks) THEN Raise("Lista de cobertura incompleta.")
    ELSE IF ~IsInt(toks[pos]) THEN Raise("invalid literal for int()")
    ELSE IF ~InUniverse(IntVal(toks[pos]), m)
         THEN Raise("Elemento fora do universo 1..n.")
    ELSE ReadSets(toks, pos + 1, m, s, it, j + 1,
                  [sets EXCEPT ![it] = @ \cup {IntVal(toks[pos]) - 1}])

\* lines 62-68: the coefficients
RECURSIVE ReadCoeffs(_, _, _, _)
ReadCoeffs(toks, pos, left, coeffs) ==
    IF left <= 0 THEN [ok |-> TRUE, coeffs |-> coeffs, pos |-> pos]
    ELSE IF pos > Len(toks)
         THEN Raise("Matriz A (triangular superior) incompleta.")
    ELSE IF ~IsFloat(toks[pos]) THEN Raise("could not convert string to float")
    ELSE ReadCoeffs(toks, pos + 1, left - 1, Append(coeffs, FloatVal(toks[pos])))

\* idx of lines 72-76 when (i, j) is reached, 0-based
CoeffIndex(m, r, c) == r * m - ((r * (r - 1)) \div 2) + (c - r)

\* lines 71-78: {(i, j): a_ij} for the nonzero coefficients, i <= j
SparseA(m, coeffs) ==
    LET keys == {k \in (0..(m - 1)) \X (0..(m - 1)) :
                   k[1] <= k[2] /\ coeffs[CoeffIndex(m, k[1], k[2]) + 1] # 0}
    IN  [k \in keys |-> coeffs[CoeffIndex(m, k[1], k[2]) + 1]]

parse_instance(f) ==
    LET toks == token_stream(f) IN
    IF toks = <<>> THEN Raise("Arquivo vazio ou n ausente.")
    ELSE IF ~IsInt(toks[1]) THEN Raise("invalid literal for int()")
    ELSE
      LET m == IntVal(toks[1])
          sz == ReadSizes(toks, 2, m, <<>>)
      IN
      IF ~sz.ok THEN sz
      ELSE
        LET st == ReadSets(toks, sz.pos, m, sz.s, 1, 0, [t \in 1..m |-> {}]) IN
        IF ~st.ok THEN st
        ELSE
          LET cf == ReadCoeffs(toks, st.pos, (m * (m + 1)) \div 2, <<>>) IN
          IF ~cf.ok THEN cf
          ELSE [ok |-> TRUE, n |-> m, subsets |-> st.subsets,
                A |-> SparseA(m, cf.coeffs)]

(***************************************************************************)
(* main of the runner: lines 163-167                                       *)
(***************************************************************************)
main_parse ==
    /\ pc = "start"
    /\ parsed' = parse_instance(file)
    /\ IF parsed'.ok
       THEN /\ pc' = "parsed"
            /\ report' = report
       ELSE /\ pc' = "exit2"
            /\ report' = <<"Erro ao ler a instancia", parsed'.error>>
    /\ UNCHANGED <<n, pattern, rng, S, S_entry, missing, i, matVars, detVars,
                   file, args, milp, solver, result>>

\* the file the generator wrote is given to the runner
invoke_runner ==
    /\ pc = "done"
    /\ pc' = "start"
    /\ UNCHANGED <<n, pattern, rng, S, S_entry, missing, i, matVars, detVars,
                   file, runVars>>

(***************************************************************************)
(* build_and_solve.  Solver values are held in units of 1 / YDen: a binary *)
(* x is 0 or YDen, a product variable y ranges over 0..YDen.               *)
(***************************************************************************)
XVar(it) == <<"x", it>>
YVar(k) == <<"y", k[1], k[2]>>
IsY(v) == v[1] = "y"

\* line 107: the items whose covering set holds k
Coverers(inst, k) == {it \in 0..(inst.n - 1) : k \in inst.subsets[it + 1]}

\* line 108: sum of x_i over the coverers >= 1
CoverConstr(inst, k) ==
    [name |-> <<"cover", k>>,
     terms |-> [v \in {XVar(it) : it \in Coverers(inst, k)} |-> 1],
     sense |-> ">=", rhs |-> 1]

\* Mutant: the lower McCormick bound is left out.
LinearizationNoLower(k) ==
    IF k[1] = k[2]
    THEN {[name |-> <<"diag", k[1]>>,
           terms |-> (YVar(k) :> 1) @@ (XVar(k[1]) :> -1),
           sense |-> "==", rhs |-> 0]}
    ELSE {[name |-> <<"mc1", k>>,
           terms |-> (YVar(k) :> 1) @@ (XVar(k[1]) :> -1),
           sense |-> "<=", rhs |-> 0],
          [name |-> <<"mc2", k>>,
           terms |-> (YVar(k) :> 1) @@ (XVar(k[2]) :> -1),
           sense |-> "<=", rhs |-> 0]}

\* lines 111-118: the constraints added for the product variable y[k]
Linearization(k) ==
    IF k[1] = k[2]
    THEN {[name |-> <<"diag", k[1]>>,
           terms |-> (YVar(k) :> 1) @@ (XVar(k[1]) :> -1),
           sense |-> "==", rhs |-> 0]}
    ELSE {[name |-> <<"mc1", k>>,
           terms |-> (YVar(k) :> 1) @@ (XVar(k[1]) :> -1),
           sense |-> "<=", rhs |-> 0],
          [name |-> <<"mc2", k>>,
           terms |-> (YVar(k) :> 1) @@ (XVar(k[2]) :> -1),
           sense |-> "<=", rhs |-> 0],
          [name |-> <<"mc3", k>>,
           terms |-> (YVar(k) :> 1) @@ (XVar(k[1]) :> -1) @@ (XVar(k[2]) :> -1),
           sense |-> ">=", rhs |-> -1]}

\* Mutant: the objective is minimised.
ObjectiveSenseMin == "MINIMIZE"

\* line 121: GRB.MAXIMIZE
ObjectiveSense == "MAXIMIZE"

DefaultOutputFlag == 1

\* lines 87-121: the model handed to the solver
BuildModel(inst, a) ==
    [params |-> [OutputFlag |-> IF a.quiet THEN 0 ELSE DefaultOutputFlag,
                 TimeLimit |-> a.timelimit,
                 MIPGap |-> a.mipgap],
     x |-> 0..(inst.n - 1),
     y |-> DOMAIN inst.A,
     constrs |-> {CoverConstr(inst, k) : k \in 0..(inst.n - 1)}
                 \cup UNION {Linearization(k) : k \in DOMAIN inst.A},
     obj |-> [v \in {YVar(k) : k \in DOMAIN inst.A} |->
                inst.A[<<v[2], v[3]>>]],
     sense |-> ObjectiveSense]

build_model ==
    /\ pc = "parsed"
    /\ milp' = BuildModel(parsed, args)
    /\ pc' = "built_model"
    /\ UNCHANGED <<n, pattern, rng, S, S_entry, missing, i, matVars, detVars,
                   file, args, parsed, solver, result, report>>

(***************************************************************************)
(* The external solver.  A point is [x |-> ..., y |-> ...].                *)
(***************************************************************************)
Val(pt, v) == IF IsY(v) THEN pt.y[<<v[2], v[3]>>] ELSE pt.x[v[2]]

RECURSIVE SumTerms(_, _, _)
SumTerms(vs, terms, pt) ==
    IF vs = {} THEN 0
    ELSE LET v == CHOOSE w \in vs : TRUE
         IN  terms[v] * Val(pt, v) + SumTerms(vs \ {v}, terms, pt)

Holds(c, pt) ==
    LET lhs == SumTerms(DOMAIN c.terms, c.terms, pt)
        rhs == c.rhs * YDen
    IN  CASE c.sense = ">=" -> lhs >= rhs
          [] c.sense = "<=" -> lhs <= rhs
          [] c.sense = "==" -> lhs = rhs

YVarsOf(c) == {v \in DOMAIN c.terms : IsY(v)}

\* the values of y[k] that satisfy, with the binaries xa, every constraint
\* whose only product variable is y[k]
FeasibleY(m, xa, k) ==
    {v \in 0..YDen :
        \A c \in m.constrs :
            YVarsOf(c) = {YVar(k)} =>
                Holds(c, [x |-> xa, y |-> (k :> v)])}

RECURSIVE YChoices(_, _, _)
YChoices(m, xa, ks) ==
    IF ks = {} THEN {<<>>}
    ELSE LET k == CHOOSE w \in ks : TRUE
         IN  {(k :> v) @@ f : v \in FeasibleY(m, xa, k),
                              f \in YChoices(m, xa, ks \ {k})}

\* the feasible points of the model: binaries x, and y on the grid.  No
\* constraint of the model holds two product variables, so the values of
\* the y[k] are chosen one k at a time.
FeasiblePoints(m) ==
    IF \A c \in m.constrs : Cardinality(YVarsOf(c)) <= 1
    THEN UNION {{[x |-> xa, y |-> ya] : ya \in YChoices(m, xa, m.y)}
                  : xa \in {f \in [m.x -> {0, YDen}] :
                              \A c \in m.constrs :
                                 YVarsOf(c) = {} => Holds(c, [x |-> f, y |-> <<>>])}}
    ELSE {pt \in [x : [m.x -> {0, YDen}], y : [m.y -> 0..YDen]] :
             \A c \in m.constrs : Holds(c, pt)}

Objective(m, pt) == SumTerms(DOMAIN m.obj, m.obj, pt)

Better(m, a, b) == IF m.sense = "MAXIMIZE" THEN a >= b ELSE a <= b

OptimalAmong(m, pts) ==
    {pt \in pts :
        \A q \in pts : Better(m, Objective(m, pt), Objective(m, q))}

OptimalPoints(m) == OptimalAmong(m, FeasiblePoints(m))

\* an attribute that has a value; None is one that has not
Some(v) == <<v>>

\* IntFeasTol: a binary is reported within 1 / XDen of 0 or 1
XDen == 100000

\* x[i].X of the incumbent, in units of 1 / XDen
ReportedX(pt, it, slack) ==
    IF pt.x[it] = 0 THEN slack[it] ELSE XDen - slack[it]

\* line 123: what the solver can report after optimize().  It proves
\* optimality, proves infeasibility, or stops at the time limit with or
\* without an incumbent.
SolverOutcomes(m) ==
    LET feasible == FeasiblePoints(m)
    IN  {[Status |-> "OPTIMAL", SolCount |-> 1, point |-> Some(pt),
          ObjVal |-> Some(Objective(m, pt)),
          ObjBound |-> Some(Objective(m, pt)), MIPGap |-> Some(0)] :
            pt \in OptimalAmong(m, feasible)}
        \cup
        {[Status |-> "TIME_LIMIT", SolCount |-> 1, point |-> Some(pt),
          ObjVal |-> Some(Objective(m, pt)), ObjBound |-> None,
          MIPGap |-> None] :
            pt \in feasible}
        \cup
        {[Status |-> "TIME_LIMIT", SolCount |-> 0, point |-> None,
          ObjVal |-> None, ObjBound |-> None, MIPGap |-> None]}
        \cup
        (IF feasible = {}
         THEN {[Status |-> "INFEASIBLE", SolCount |-> 0, point |-> None,
                ObjVal |-> None, ObjBound |-> None, MIPGap |-> None]}
         ELSE {})

optimize ==
    /\ pc = "built_model"
    /\ solver' \in SolverOutcomes(milp)
    /\ pc' = "optimized"
    /\ UNCHANGED <<n, pattern, rng, S, S_entry, missing, i, matVars, detVars,
                   file, args, parsed, milp, result, report>>

\* Mutant: the results are filled only after a proof of optimality.
ProvedOptimal(sv) == sv.Status = "OPTIMAL"

\* line 146: m.SolCount > 0
HasIncumbent(sv) == sv.SolCount > 0

\* line 148: int(round(x[i].X))
RoundedX(sv, it, slack) == RoundHalfEven(ReportedX(sv.point[1], it, slack), XDen)

RECURSIVE SumList(_)
SumList(s) == IF s = <<>> THEN 0 ELSE Head(s) + SumList(Tail(s))

\* lines 125-153; slack[i] is how far x[i].X lies from its binary value
ExtractResult(inst, sv, slack) ==
    LET xv == [t \in 1..inst.n |-> RoundedX(sv, t - 1, slack)]
        base == [status |-> sv.Status, best_bound |-> sv.ObjBound,
                 mip_gap |-> sv.MIPGap, obj_val |-> None, x |-> None, selected_sets |-> None,
                 n_selected |-> None]
    IN  IF HasIncumbent(sv)
        THEN [base EXCEPT
                !.obj_val = sv.ObjVal,
                !.x = Some(xv),
                !.selected_sets =
                    Some(SortedList({it \in 0..(inst.n - 1) : xv[it + 1] = 1})),
                !.n_selected =
                    Some(SumList(xv))]
        ELSE base

extract_result ==
    /\ pc = "optimized"
    /\ \E slack \in [0..(parsed.n - 1) -> {0, 1}] :
           result' = ExtractResult(parsed, solver, slack)
    /\ pc' = "returned"
    /\ UNCHANGED <<n, pattern, rng, S, S_entry, missing, i, matVars, detVars,
                   file, args, parsed, milp, solver, report>>

\* line 180
NoIncumbentLine == <<"Nenhuma solucao incumbente encontrada.">>

\* lines 171-180
main_report ==
    /\ pc = "returned"
    /\ report' = <<<<"Status", result.status>>,
                    <<"Melhor limite (bound)", result.best_bound>>,
                    <<"Gap", result.mip_gap>>>>
                  \o (IF result.obj_val # None
                      THEN <<<<"Valor da solucao", result.obj_val[1]>>,
                             <<"Selecionados", result.n_selected[1],
                               result.selected_sets[1]>>>>
                      ELSE <<NoIncumbentLine>>)
    /\ pc' = "reported"
    /\ UNCHANGED <<n, pattern, rng, S, S_entry, missing, i, matVars, detVars,
                   file, args, parsed, milp, solver, result>>

build_and_solve ==
    \/ build_model
    \/ optimize
    \/ extract_result

DetIdle ==
    /\ args_seed = Idle /\ hash_pattern = Idle /\ seed = Idle
    /\ run = 1 /\ first = Idle

RunIdle ==
    /\ args = Idle /\ parsed = Idle /\ milp = Idle
    /\ solver = Idle /\ result = Idle /\ report = Idle

(***************************************************************************)
(* SpecGen: build_sets for every n, pattern and outcome of the source.     *)
(***************************************************************************)
InitGen ==
    /\ pc = "pattern"
    /\ n \in 1..MaxN
    /\ pattern \in Patterns
    /\ rng = AnyRng
    /\ S = <<>>
    /\ S_entry = <<>>
    /\ missing = <<>>
    /\ i = 0
    /\ density = Idle /\ diag_range = Idle /\ off_range = Idle
    /\ A_rows = <<>> /\ picked = {}
    /\ DetIdle /\ RunIdle
    /\ file = <<>>

NextGen == build_sets

SpecGen == InitGen /\ [][NextGen]_vars

(***************************************************************************)
(* SpecMatrix: gen_A_triangular for every n, density, range and outcome.   *)
(***************************************************************************)
InitMatrix ==
    /\ pc = "matrix"
    /\ n \in 0..MaxN
    /\ pattern = Idle
    /\ rng = AnyRng
    /\ S = <<>> /\ S_entry = <<>> /\ missing = <<>> /\ i = 0
    /\ density \in Densities
    /\ diag_range \in Ranges
    /\ off_range \in OffRanges
    /\ A_rows = <<>> /\ picked = {}
    /\ DetIdle /\ RunIdle
    /\ file = <<>>

NextMatrix == gen_A_triangular

SpecMatrix == InitMatrix /\ [][NextMatrix]_vars

(***************************************************************************)
(* SpecDet: the generator's main run twice on the same command line.       *)
(***************************************************************************)
InitDet ==
    /\ pc = "main"
    /\ n \in 1..MaxN
    /\ pattern \in Patterns
    /\ rng = AnyRng
    /\ S = <<>> /\ S_entry = <<>> /\ missing = <<>> /\ i = 0
    /\ density \in Densities
    /\ diag_range = Idle /\ off_range = Idle
    /\ A_rows = <<>> /\ picked = {}
    /\ args_seed \in {None} \cup {<<sd>> : sd \in 0..MaxSeed}
    /\ hash_pattern \in HashValues
    /\ seed = Idle
    /\ run = 1
    /\ first = Idle
    /\ RunIdle
    /\ file = <<>>

NextDet ==
    \/ main_seed
    \/ build_sets
    \/ main_gen_A
    \/ gen_A_triangular
    \/ main_write
    \/ second_run

SpecDet == InitDet /\ [][NextDet]_vars

(***************************************************************************)
(* SpecFile: an instance held in memory is written, then parsed.           *)
(***************************************************************************)
\* coefficient values tried: zero, one digit, two digits, both signs
CoefValues == {0, 5, -12}

\* the upper-triangular matrices of size m over CoefValues
TriangularRows(m) ==
    {rows \in [1..m -> UNION {[1..len -> CoefValues] : len \in 1..m}] :
        \A r \in 1..m : Len(rows[r]) = m - r + 1}

InitFile ==
    /\ pc = "write"
    /\ n \in 0..FileMaxN
    /\ pattern = Idle
    /\ rng = AnyRng
    /\ S \in [1..n -> SUBSET (1..n)]
    /\ S_entry = <<>> /\ missing = <<>> /\ i = 0
    /\ density = Idle /\ diag_range = Idle /\ off_range = Idle
    /\ A_rows \in TriangularRows(n)
    /\ picked = {}
    /\ DetIdle /\ RunIdle
    /\ file = <<>>

NextFile ==
    \/ main_write
    \/ invoke_runner
    \/ main_parse

SpecFile == InitFile /\ [][NextFile]_vars

(***************************************************************************)
(* SpecParse: the runner is started on an arbitrary token stream.          *)
(***************************************************************************)
TokenAlphabet ==
    {IntStr(-2), IntStr(-1), IntStr(0), IntStr(1), IntStr(2),
     <<"x">>, <<"0", ".", "0">>}

TokenStreams == UNION {[1..len -> TokenAlphabet] : len \in 0..MaxToks}

\* the first token on a line of its own, a blank line, the other tokens
AsLines(toks) ==
    IF toks = <<>> THEN <<>> ELSE << <<toks[1]>>, <<>>, Tail(toks) >>

InitParse ==
    /\ pc = "start"
    /\ n = 0
    /\ pattern = Idle
    /\ rng = AnyRng
    /\ S = <<>> /\ S_entry = <<>> /\ missing = <<>> /\ i = 0
    /\ density = Idle /\ diag_range = Idle /\ off_range = Idle
    /\ A_rows = <<>> /\ picked = {}
    /\ DetIdle /\ RunIdle
    /\ file \in {AsLines(toks) : toks \in TokenStreams}

NextParse == main_parse

SpecParse == InitParse /\ [][NextParse]_vars

(***************************************************************************)
(* SpecSolve: build_and_solve and the report, on parsed instances.         *)
(***************************************************************************)
\* n=4, CoveringSet = [{1,2},{2,3},{3,4},{4,1}], diagonal 1, nothing else
Scenario ==
    [ok |-> TRUE, n |-> 4,
     subsets |-> <<{0, 1}, {1, 2}, {2, 3}, {3, 0}>>,
     A |-> [k \in {<<0, 0>>, <<1, 1>>, <<2, 2>>, <<3, 3>>} |-> 1]]

SolveCoefs == {-1, 0, 1}

\* the covering set of item it: len consecutive elements from it, wrapping
\* around the universe
CyclicSet(m, it, len) == {(it + d) % m : d \in 0..(len - 1)}

SolveInstances ==
    {Scenario} \cup
    UNION {{[ok |-> TRUE, n |-> m, subsets |-> s, A |-> SparseA(m, cf)] :
              s \in {[t \in 1..m |-> CyclicSet(m, t - 1, len)] :
                        len \in 0..m},
              cf \in [1..((m * (m + 1)) \div 2) -> SolveCoefs]}
             : m \in 0..SolveMaxN}

DefaultTimeLimit == 600

\* the default command line, and --quiet
RunnerArgs ==
    {[timelimit |-> DefaultTimeLimit, mipgap |-> None, quiet |-> q] :
        q \in BOOLEAN}

InitSolve ==
    /\ pc = "parsed"
    /\ n = 0
    /\ pattern = Idle
    /\ rng = AnyRng
    /\ S = <<>> /\ S_entry = <<>> /\ missing = <<>> /\ i = 0
    /\ density = Idle /\ diag_range = Idle /\ off_range = Idle
    /\ A_rows = <<>> /\ picked = {}
    /\ DetIdle
    /\ file = <<>>
    /\ args \in RunnerArgs
    /\ parsed \in SolveInstances
    /\ milp = Idle /\ solver = Idle /\ result = Idle /\ report = Idle

NextSolve ==
    \/ build_and_solve
    \/ main_report

SpecSolve == InitSolve /\ [][NextSolve]_vars

(***************************************************************************)
(* Properties of the generator.                                            *)
(***************************************************************************)
Union(T) == UNION {T[t] : t \in 1..Len(T)}

\* the elements no set of S held when enforce_coverage was entered
UncoveredAtEntry == {k \in 1..n : \A t \in 1..Len(S_entry) : k \notin S_entry[t]}

\* C1 (coverage invariant): the sets returned by build_sets have union
\* exactly 1..n: every element of 1..n lies in some set and no set holds an
\* element outside 1..n.
C1_Coverage ==
    pc = "built" =>
        /\ \A k \in 1..n : \E t \in 1..Len(S) : k \in S[t]
        /\ \A t \in 1..Len(S) : S[t] \subseteq 1..n

\* a run of build_sets that ended after two elements had to be repaired
C1_Witness ==
    /\ pc = "built"
    /\ Cardinality(UncoveredAtEntry) >= 2

\* C2 (non-empty invariant): build_sets returns exactly n sets, each of size
\* at least 1 and within 1..n; and a step of nonempty_fix that meets an
\* empty set fills it with exactly one element of 1..n.
C2_NonEmpty ==
    /\ [](pc = "built" =>
            /\ Len(S) = n
            /\ \A t \in 1..n : Cardinality(S[t]) >= 1 /\ S[t] \subseteq 1..n)
    /\ [][(pc = "fix" /\ S[i] = {}) =>
            \E e \in 1..n : S' = [S EXCEPT ![i] = {e}]]_vars

\* the uniform strategy left a set empty, nothing was missing, so coverage
\* repair touched no set, and build_sets has returned
C2_Witness ==
    /\ pc = "built"
    /\ pattern = "uniform"
    /\ UncoveredAtEntry = {}
    /\ \E t \in 1..Len(S_entry) : S_entry[t] = {}

\* C10 (coverage repair step rule): each step of enforce_coverage takes the
\* smallest element uncovered at entry that is still uncovered and adds it
\* to one set only, the lowest-indexed set among those of minimal current
\* size; nothing is removed, nothing covered at entry is added, S is left
\* as it was when nothing is missing, and when the pass ends every element
\* is covered and every repaired element lies in exactly one set.
C10_RepairStep ==
    [][/\ (pc = "enforce") =>
            LET k == CHOOSE e \in UncoveredAtEntry \ Union(S) :
                        \A f \in UncoveredAtEntry \ Union(S) : e <= f
            IN  /\ UncoveredAtEntry \ Union(S) # {}
                /\ \E idx \in 1..Len(S) :
                      /\ \A t \in 1..Len(S) :
                            Cardinality(S[idx]) <= Cardinality(S[t])
                      /\ \A t \in 1..(idx - 1) :
                            Cardinality(S[idx]) < Cardinality(S[t])
                      /\ S' = [S EXCEPT ![idx] = S[idx] \cup {k}]
                /\ k \notin Union(S_entry)
       /\ (pc = "pattern" /\ pc' # "pattern") =>
            /\ S' = S
            /\ (pc' # "enforce") <=> (\A e \in 1..n : e \in Union(S))
       /\ (pc \in {"pattern", "enforce"} /\ pc' \in {"fix", "built"}) =>
            /\ Union(S') = 1..n
            /\ \A t \in 1..Len(S') : S_entry'[t] \subseteq S'[t]
            /\ \A t \in 1..Len(S') : S'[t] \ S_entry'[t] \subseteq
                                       (1..n) \ Union(S_entry')
            /\ \A e \in (1..n) \ Union(S_entry') :
                  Cardinality({t \in 1..Len(S') : e \in S'[t]}) = 1
      ]_vars

\* the pass has just ended after repairing two elements that went to two
\* different sets: the second choice saw the size the first addition made
C10_Witness ==
    /\ pc = "fix" /\ i = 1
    /\ \E a, b \in UncoveredAtEntry : \E t, u \in 1..Len(S) :
          /\ a # b /\ t # u
          /\ a \in S[t] /\ b \in S[u]
          /\ Cardinality(S_entry[t]) = Cardinality(S_entry[u])

\* C9 (diagonal never zero): every row r that gen_A_triangular returns has
\* n - r + 1 entries, its first entry is nonzero whatever the diagonal
\* range, and an off-diagonal entry is 0 exactly when the density test did
\* not select its position.
C9_DiagonalNonzero ==
    /\ \A r \in 1..Len(A_rows) : A_rows[r][1] # 0
    /\ pc = "write" =>
          /\ Len(A_rows) = n
          /\ \A r \in 1..n :
                /\ Len(A_rows[r]) = n - r + 1
                /\ \A c \in 2..Len(A_rows[r]) :
                      (A_rows[r][c] = 0) <=> (<<r, r + c - 1>> \notin picked)

\* a matrix returned for a diagonal range that holds nothing but 0, with an
\* off-diagonal position selected and another one not
C9_Witness ==
    /\ pc = "write"
    /\ n = MaxN
    /\ diag_range = <<0, 0>>
    /\ picked # {}
    /\ \E r \in 1..n : \E c \in 2..Len(A_rows[r]) : A_rows[r][c] = 0

\* C8 (determinism): a second run with the same n, pattern, density and
\* seed (the same --seed, or the same default seed) consumes as many draws
\* as the first and produces the same covering sets, the same coefficient
\* rows and the same file content.
C8_Determinism ==
    (pc = "done" /\ run = 2 /\ (args_seed # None \/ seed = first.seed)) =>
        /\ S = first.S
        /\ A_rows = first.A_rows
        /\ file = first.file
        /\ rng.calls = first.calls

\* two finished runs on the same --seed, in processes whose string hashes
\* differ, in which coverage repair and the matrix drew from the source
C8_Witness ==
    /\ pc = "done" /\ run = 2
    /\ args_seed # None
    /\ first.hash # hash_pattern
    /\ UncoveredAtEntry # {}
    /\ rng.calls > n * n

(***************************************************************************)
(* Properties of the file format.                                          *)
(***************************************************************************)
\* C3 (round trip): parsing the file written from a valid instance
\* (n, S, A_rows) returns the same n, the covering sets with every element
\* moved from 1-based to 0-based, and a mapping that holds exactly the
\* nonzero coefficients a[i][j], i <= j, at their positions with their
\* values; the parse never fails.
C3_RoundTrip ==
    /\ pc # "exit2"
    /\ pc = "parsed" =>
          /\ parsed.ok
          /\ parsed.n = n
          /\ parsed.subsets = [t \in 1..n |-> {k - 1 : k \in S[t]}]
          /\ DOMAIN parsed.A =
                {k \in (0..(n - 1)) \X (0..(n - 1)) :
                    k[1] <= k[2] /\ A_rows[k[1] + 1][k[2] - k[1] + 1] # 0}
          /\ \A k \in DOMAIN parsed.A :
                parsed.A[k] = A_rows[k[1] + 1][k[2] - k[1] + 1]

\* a parsed instance of the largest size with an empty set, a set of two
\* elements, a zero coefficient and a negative two-digit coefficient
C3_Witness ==
    /\ pc = "parsed"
    /\ n = FileMaxN
    /\ \E t, u \in 1..n : S[t] = {} /\ Cardinality(S[u]) = 2
    /\ \E r \in 1..n : \E c \in 1..Len(A_rows[r]) : A_rows[r][c] = 0
    /\ \E r \in 1..n : \E c \in 1..Len(A_rows[r]) : A_rows[r][c] < -9

RECURSIVE SumNonNeg(_)
SumNonNeg(s) == IF s = <<>> THEN 0 ELSE Max(0, Head(s)) + SumNonNeg(Tail(s))

\* the declared n, the declared sizes and the number of element tokens
\* they require, read off the positions of the stream
DeclaredN(toks) == IntVal(toks[1])
DeclaredSizes(toks) == [k \in 1..DeclaredN(toks) |-> IntVal(toks[k + 1])]
SizesReadable(toks) ==
    /\ Len(toks) - 1 >= DeclaredN(toks)
    /\ \A k \in 1..DeclaredN(toks) : IsInt(toks[k + 1])
ElementsNeeded(toks) == SumNonNeg(DeclaredSizes(toks))
FirstElement(toks) == Max(DeclaredN(toks), 0) + 2

FaultEmpty(toks) == toks = <<>>

FaultShortSizes(toks) ==
    /\ toks # <<>> /\ IsInt(toks[1])
    /\ Len(toks) - 1 < DeclaredN(toks)

FaultShortSets(toks) ==
    /\ toks # <<>> /\ IsInt(toks[1]) /\ SizesReadable(toks)
    /\ Len(toks) - (FirstElement(toks) - 1) < ElementsNeeded(toks)

FaultElement(toks) ==
    /\ toks # <<>> /\ IsInt(toks[1]) /\ SizesReadable(toks)
    /\ \E p \in FirstElement(toks)..(FirstElement(toks) + ElementsNeeded(toks) - 1) :
          /\ p <= Len(toks)
          /\ IsInt(toks[p])
          /\ ~(1 <= IntVal(toks[p]) /\ IntVal(toks[p]) <= DeclaredN(toks))

FaultShortMatrix(toks) ==
    /\ toks # <<>> /\ IsInt(toks[1]) /\ SizesReadable(toks)
    /\ Len(toks) - (FirstElement(toks) - 1) - ElementsNeeded(toks)
          < (DeclaredN(toks) * (DeclaredN(toks) + 1)) \div 2

FormatFault(toks) ==
    \/ FaultEmpty(toks)
    \/ FaultShortSizes(toks)
    \/ FaultShortSets(toks)
    \/ FaultElement(toks)
    \/ FaultShortMatrix(toks)

\* C6 (parser failure): when the stream is empty, lacks size tokens, lacks
\* set-element tokens, holds an element outside 1..n or lacks coefficient
\* tokens, parse_instance raises, the runner exits with status 2 and no
\* n, subsets or A is returned; an instance is returned only when none of
\* these holds, and then it is complete.
C6_ParserFailure ==
    pc # "start" =>
        /\ pc \in {"parsed", "exit2"}
        /\ FormatFault(token_stream(file)) =>
              /\ pc = "exit2"
              /\ DOMAIN parsed = {"ok", "error"}
              /\ ~parsed.ok
        /\ pc = "exit2" => ~parsed.ok /\ DOMAIN parsed = {"ok", "error"}
        /\ pc = "parsed" =>
              /\ ~FormatFault(token_stream(file))
              /\ DOMAIN parsed = {"ok", "n", "subsets", "A"}
              /\ Len(parsed.subsets) = Max(parsed.n, 0)

\* the runner has exited on a stream whose only fault is an element
\* outside 1..n
C6_Witness ==
    /\ pc = "exit2"
    /\ FaultElement(token_stream(file))
    /\ ~FaultShortSets(token_stream(file))
    /\ ~FaultShortMatrix(token_stream(file))

(***************************************************************************)
(* Properties of the runner (SpecSolve).                                   *)
(***************************************************************************)
ModelBuilt == pc \in {"built_model", "optimized", "returned", "reported"}

RECURSIVE QuadraticSum(_, _, _)
QuadraticSum(ks, a, xb) ==
    IF ks = {} THEN 0
    ELSE LET k == CHOOSE w \in ks : TRUE
         IN  a[k] * xb[k[1]] * xb[k[2]] + QuadraticSum(ks \ {k}, a, xb)

\* the binaries of an assignment held in units of 1 / YDen
Bits(xa) == [it \in DOMAIN xa |-> xa[it] \div YDen]

\* C4: in the model build_and_solve builds, for every binary x and every
\* stored pair (i, j), the only value of y[i][j] in [0,1] that satisfies the
\* linearization constraints of the pair is x[i]*x[j]; so at every binary x
\* the linear objective equals the sum of a[i][j]*x[i]*x[j].
C4_Linearization ==
    ModelBuilt =>
        /\ milp.y = DOMAIN parsed.A
        /\ \A xa \in [milp.x -> {0, YDen}] :
              /\ \A k \in milp.y :
                    FeasibleY(milp, xa, k) =
                        {YDen * Bits(xa)[k[1]] * Bits(xa)[k[2]]}
              /\ YChoices(milp, xa, milp.y) # {}
              /\ \A ya \in YChoices(milp, xa, milp.y) :
                    Objective(milp, [x |-> xa, y |-> ya]) =
                        YDen * QuadraticSum(DOMAIN parsed.A, parsed.A, Bits(xa))

\* a model with a diagonal pair and an off-diagonal pair of negative
\* coefficient has been built
C4_Witness ==
    /\ pc = "built_model"
    /\ \E k \in milp.y : k[1] < k[2] /\ parsed.A[k] < 0
    /\ \E k \in milp.y : k[1] = k[2]

\* selections are sets of items numbered from 1
Selection(pt) == {it + 1 : it \in {u \in DOMAIN pt.x : pt.x[u] = YDen}}

FeasibleSelections(m) == {Selection(pt) : pt \in FeasiblePoints(m)}

MinimalSelections(sels) ==
    {s \in sels : \A u \in sels : u \subseteq s => u = s}

\* elements 1, 2, 3, 4 lie in the sets of items {1,4}, {1,2}, {2,3}, {3,4}
ScenarioCovers ==
    {s \in SUBSET (1..4) :
        /\ s \cap {1, 4} # {}
        /\ s \cap {1, 2} # {}
        /\ s \cap {2, 3} # {}
        /\ s \cap {3, 4} # {}}

ScenarioBuilt == ModelBuilt /\ parsed = Scenario

ScenarioRegion ==
    /\ FeasibleSelections(milp) = ScenarioCovers
    /\ MinimalSelections(FeasibleSelections(milp)) = {{1, 3}, {2, 4}}
    /\ \A pt \in FeasiblePoints(milp) :
          Selection(pt) \in {{1, 3}, {2, 4}} => Objective(milp, pt) = 2 * YDen

\* C5 as stated: in the scenario the feasible region is the set of
\* selections satisfying the four cover constraints, the minimal feasible
\* selections are {1,3} and {2,4} with objective 2, and 2 is the optimal
\* objective value of the model.
C5_ScenarioOptimumTwo ==
    ScenarioBuilt =>
        /\ ScenarioRegion
        /\ OptimalPoints(milp) # {}
        /\ \A pt \in OptimalPoints(milp) : Objective(milp, pt) = 2 * YDen

\* C5, amended: in the scenario the feasible region is the set of selections
\* satisfying the four cover constraints, the minimal feasible selections
\* are {1,3} and {2,4} with objective 2, which is the least objective value
\* of a feasible selection; the optimal objective value of the maximization
\* model is 4, reached only by selecting all four items, and it is what the
\* solver returns when it proves optimality.
C5_ScenarioOptimumFour ==
    ScenarioBuilt =>
        /\ ScenarioRegion
        /\ \A pt \in FeasiblePoints(milp) : Objective(milp, pt) >= 2 * YDen
        /\ OptimalPoints(milp) # {}
        /\ \A pt \in OptimalPoints(milp) :
              Objective(milp, pt) = 4 * YDen /\ Selection(pt) = 1..4
        /\ (pc \in {"optimized", "returned", "reported"}
              /\ solver.Status = "OPTIMAL")
              => solver.ObjVal = Some(4 * YDen)

\* the scenario has been solved to optimality and reported
C5_Witness ==
    /\ pc = "reported"
    /\ parsed = Scenario
    /\ solver.Status = "OPTIMAL"
    /\ result.selected_sets = Some(<<0, 1, 2, 3>>)

ResultFields == {"obj_val", "x", "selected_sets", "n_selected"}

\* C7: build_and_solve fills obj_val, x, selected_sets and n_selected if and
\* only if the solver reports an incumbent (SolCount > 0), whatever the
\* status; then every x[i] is 0 or 1, selected_sets is the ascending list of
\* the indices i with x[i] = 1 and n_selected is its length.  With no
\* incumbent the four stay unset and the runner reports that no incumbent
\* was found instead of a solution.
C7_ResultExtraction ==
    /\ pc \in {"returned", "reported"} =>
          IF solver.SolCount > 0
          THEN /\ \A f \in ResultFields : result[f] # None
               /\ LET xv == result.x[1]
                      sel == result.selected_sets[1]
                  IN  /\ Len(xv) = parsed.n
                      /\ \A t \in 1..Len(xv) : xv[t] \in {0, 1}
                      /\ {sel[t] : t \in 1..Len(sel)} =
                             {it \in 0..(parsed.n - 1) : xv[it + 1] = 1}
                      /\ \A t, u \in 1..Len(sel) : t < u => sel[t] < sel[u]
                      /\ result.n_selected = Some(Len(sel))
          ELSE \A f \in ResultFields : result[f] = None
    /\ pc = "reported" =>
          LET lines == {report[t] : t \in 1..Len(report)}
              solution == {ln \in lines : ln[1] = "Valor da solucao"}
              nothing == {ln \in lines : ln[1] = NoIncumbentLine[1]}
          IN  IF solver.SolCount > 0
              THEN solution = {<<"Valor da solucao", solver.ObjVal[1]>>}
                   /\ nothing = {}
              ELSE solution = {} /\ nothing = {NoIncumbentLine}

\* a run stopped by the time limit with an incumbent that selects some
\* items and leaves out others has been reported
C7_Witness ==
    /\ pc = "reported"
    /\ solver.Status = "TIME_LIMIT"
    /\ solver.SolCount > 0
    /\ result.n_selected[1] >= 1
    /\ result.n_selected[1] < parsed.n
    /\ \E t \in 1..Len(report) : report[t][1] = "Selecionados"

====
